---- MODULE Spec2Model ----
(***************************************************************************)
(* A model of src/app.py: the Streamlit creative-writing assistant.        *)
(*                                                                         *)
(* The script is re-executed from its first line on every user             *)
(* interaction.  Each action below is one such execution (one "pass"):     *)
(* the start-up block, then the handler of the widget that fired.          *)
(*                                                                         *)
(* Text is modelled as a sequence of tokens (<<>> is the empty string, \o  *)
(* is concatenation), so that interpolation into prompts and the           *)
(* "Error: ..." tag keep their structure.                                  *)
(***************************************************************************)
EXTENDS Integers, Sequences, FiniteSets, TLC

VARIABLES
    users,          \* table "users": username -> [password, personas]
    chat_history,   \* table "chat_history": id -> [username, data]
    session_state,  \* per browser tab: st.session_state
    query_params,   \* per browser tab: st.query_params["u"] (NoUser if unset)
    pc,             \* per browser tab: what the tab shows / whether a run is due
    nextId,         \* the next identifier uuid.uuid4() hands out
    lastOp,         \* what the most recent pass was and how it ended
    ctx_messages,   \* the message list handed to call_ai_stream
    forwarded       \* the message list call_ai_stream gave the backend

vars == <<users, chat_history, session_state, query_params, pc, nextId,
          lastOp, ctx_messages, forwarded>>

-----------------------------------------------------------------------------
(* Bounds of the model *)

\* longest history drawn for the context assembler
MaxHist == 25
\* longest message log a session may grow to
MaxMsgs == 2
\* how many identifiers uuid4 hands out
MaxIds == 2

(* Program constants *)

\* call_ai_stream keeps the last 20 messages
Window == 20

-----------------------------------------------------------------------------
(* Text *)

Empty == <<>>

Min(a, b) == IF a < b THEN a ELSE b

\* s[:n]
Slice(s, n) == SubSeq(s, 1, Min(n, Len(s)))

\* s[-n:]
Tail_n(s, n) == SubSeq(s, Len(s) - Min(n, Len(s)) + 1, Len(s))

IsPrefix(s, t) == Len(s) <= Len(t) /\ SubSeq(t, 1, Len(s)) = s

\* f"Error: {e}"
ErrorText == <<"Error: ", "e">>

Msg(role, content) == [role |-> role, content |-> content]

-----------------------------------------------------------------------------
(* Section 5 of the source: the generation backend *)

\* what the backend does with one request
GenOutcomes == {"ok", "raise"}

\* texts the backend may produce
GenTexts == {<<"g1">>}

\* the list call_ai_stream passes to client.chat.completions.create
MutBounded_offByOne(messages) ==
    IF Len(messages) >= Window
    THEN <<messages[1]>> \o Tail_n(messages, Window)
    ELSE messages

Bounded(messages) ==
    IF Len(messages) > Window
    THEN <<messages[1]>> \o Tail_n(messages, Window)
    ELSE messages

\* call_ai_stream: a stream of fragments whose join is `text`, or the
\* error-tagged string when create() raises
call_ai_stream(messages, outcome, text) ==
    IF outcome = "ok"
    THEN [is_str |-> FALSE, sent |-> Bounded(messages), text |-> text]
    ELSE [is_str |-> TRUE,  sent |-> Bounded(messages), text |-> ErrorText]

\* call_ai_blocking: the completed text, or the error-tagged string
call_ai_blocking(outcome, text) ==
    IF outcome = "ok" THEN text ELSE ErrorText

-----------------------------------------------------------------------------
(* Personas *)

\* the values of DEFAULT_PERSONAS (the instruction texts, by their keys)
Personas == {<<"persona_friend">>, <<"persona_mentor">>, <<"persona_socrates">>}

SEMINAR_SYSTEM_PROMPT == <<"SEMINAR_SYSTEM_PROMPT">>

-----------------------------------------------------------------------------
(* Dictionaries *)

EmptyMap == <<>>

Put(m, k, v) == [x \in (DOMAIN m) \cup {k} |-> IF x = k THEN v ELSE m[x]]

Del(m, k) == [x \in (DOMAIN m) \ {k} |-> m[x]]

-----------------------------------------------------------------------------
(* Section 4 of the source: identity *)

Clients == {"tab1", "tab2"}

Usernames == {"alice"}

NoUser == "-"

Passwords == {"", "secret1", "wrong"}

\* hashlib.sha256(p.encode()).hexdigest(), first eight digits
hash_password(p) ==
    CASE p = ""        -> "e3b0c442"
      [] p = "secret1" -> "5b11618c"
      [] p = "wrong"   -> "8810ad58"

\* what one call on the store does: it is carried out, or it raises.  The
\* handlers take the set `so` of outcomes the store of a specification has.
StoreOutcomes == {"ok", "raise"}

Reliable == {"ok"}

\* register_user: <<success, users table afterwards, raised>>.  The select is
\* outside the try, the insert inside it.
register_user(u, p, sel, ins) ==
    IF sel = "raise" THEN [ok |-> FALSE, table |-> users, raised |-> TRUE]
    ELSE IF u \in DOMAIN users
         THEN [ok |-> FALSE, table |-> users, raised |-> FALSE]
    ELSE IF ins = "raise"
         THEN [ok |-> FALSE, table |-> users, raised |-> FALSE]
    ELSE [ok |-> TRUE,
          table |-> Put(users, u, [password |-> hash_password(p),
                                   personas |-> EmptyMap]),
          raised |-> FALSE]

\* the rows of q = users.select("*").eq("username", u), narrowed by
\* .eq("password", hash_password(p)) only when p is truthy
LoginRows(u, p) ==
    {x \in DOMAIN users :
        /\ x = u
        /\ (p # "" => users[x].password = hash_password(p))}

\* login_user: success or not; every exception gives (False, {})
login_user(u, p, sel) ==
    IF sel = "raise" THEN FALSE ELSE LoginRows(u, p) # {}

-----------------------------------------------------------------------------
(* Session documents *)

None == 0

ArtifactKeys == {"article_content", "script_content", "outline_content",
                 "extracted_material", "extracted_analysis"}

\* the dict literal of lines 251 and 268
NewDoc(title, now) ==
    [title |-> title, messages |-> <<>>,
     article_content |-> Empty, script_content |-> Empty,
     outline_content |-> Empty, extracted_material |-> Empty,
     extracted_analysis |-> Empty, created_at |-> now]

\* the title of line 251
DefaultTitle == <<"new_session">>

\* the title of line 268: a fixed prefix and strftime('%H:%M')
ButtonTitle == <<"idea-", "HH:MM">>

\* lines 246-247 for one document: if k not in s: s[k] = ""
MutBackfill_noOutline(s) ==
    [k \in (DOMAIN s) \cup (ArtifactKeys \ {"outline_content"}) |->
        IF k \in DOMAIN s THEN s[k] ELSE Empty]

Backfill(s) ==
    [k \in (DOMAIN s) \cup ArtifactKeys |->
        IF k \in DOMAIN s THEN s[k] ELSE Empty]

\* lines 245-247: every document of the mapping
BackfillAll(h) == [sid \in DOMAIN h |-> Backfill(h[sid])]

-----------------------------------------------------------------------------
(* Section 4 of the source: the session store *)

\* load_user_data: {r['id']: r['data']} of the user's rows; {} on any exception
load_user_data(u, sel) ==
    IF sel = "raise" THEN EmptyMap
    ELSE LET ids == {i \in DOMAIN chat_history : chat_history[i].username = u}
         IN  [i \in ids |-> chat_history[i].data]

\* the table after chat_history.upsert({"id", "username", "data"})
MutUpsert_keepLongerLog(table, sid, data, u) ==
    IF sid \in DOMAIN table
       /\ Len(table[sid].data.messages) > Len(data.messages)
    THEN Put(table, sid, [username |-> u,
                          data |-> [data EXCEPT !.messages =
                                        table[sid].data.messages]])
    ELSE Put(table, sid, [username |-> u, data |-> data])

Upsert(table, sid, data, u) ==
    Put(table, sid, [username |-> u, data |-> data])

\* save_session_db: no try; a raising store call propagates
save_session_db(table, sid, data, u, out) ==
    IF out = "raise"
    THEN [table |-> table, raised |-> TRUE]
    ELSE [table |-> Upsert(table, sid, data, u), raised |-> FALSE]

\* delete_session_db: no try; deleting an absent id deletes nothing
MutDelete_absentRaises(table, sid, out) ==
    IF out = "raise" \/ sid \notin DOMAIN table
    THEN [table |-> table, raised |-> TRUE]
    ELSE [table |-> Del(table, sid), raised |-> FALSE]

delete_session_db(table, sid, out) ==
    IF out = "raise"
    THEN [table |-> table, raised |-> TRUE]
    ELSE [table |-> Del(table, sid), raised |-> FALSE]

-----------------------------------------------------------------------------
(* Section 6 of the source: the script *)

\* st.session_state of a tab the script has run in once (line 219)
FreshState ==
    [logged_in |-> FALSE, current_user |-> NoUser,
     has_history |-> FALSE, history |-> EmptyMap,
     has_current |-> FALSE, current_session_id |-> None]

\* the last identifier uuid4 hands out within the bound
LastId == MaxIds + 1

Op(c, kind, result, info) ==
    [client |-> c, kind |-> kind, result |-> result, info |-> info]

NoInfo == [none |-> TRUE]

\* what a handler's pass met: the session it worked on, whether a store call
\* raised, whether the generation backend failed
Info(sid, store_raised, gen_failed) ==
    [sid |-> sid, store_raised |-> store_raised, gen_failed |-> gen_failed]

\* what a pass with no widget event met: whether load_user_data ran and
\* whether the store failed under it, the session line 251 created, whether
\* a store call outside a try raised
RunInfo(load_ran, load_failed, created, store_raised) ==
    [load_ran |-> load_ran, load_failed |-> load_failed,
     created |-> created, store_raised |-> store_raised]

\* no request went to the generation backend during the pass
NoRequest == ctx_messages' = <<>> /\ forwarded' = <<>>

SetState(c, ss) == session_state' = [session_state EXCEPT ![c] = ss]

SetPc(c, where) == pc' = [pc EXCEPT ![c] = where]

\* SESS of line 285 exists: the sidebar got past line 280
HasSess(ss) ==
    /\ ss.current_session_id # None
    /\ ss.current_session_id \in DOMAIN ss.history

\* lines 279-285 end a pass that no handler cut short
Render(ss) ==
    IF ss.current_session_id = None THEN "stopped"
    ELSE IF ss.current_session_id \notin DOMAIN ss.history THEN "raised"
    ELSE "rendered"

\* lines 243-251, then the sidebar and the page, for a logged-in tab
StartUp(c, ss1, load, save) ==
    LET u == ss1.current_user
        load_ran == ~ss1.has_history
        ss2 == IF load_ran
               THEN [ss1 EXCEPT !.has_history = TRUE,
                                !.history = BackfillAll(load_user_data(u, load))]
               ELSE ss1
        info == RunInfo(load_ran, load_ran /\ load = "raise", None, FALSE)
    IN
    \/ /\ ss2.has_current
       /\ SetState(c, ss2)
       /\ SetPc(c, "main")
       /\ lastOp' = Op(c, "run", Render(ss2), info)
       /\ UNCHANGED <<chat_history, nextId>>
    \/ /\ ~ss2.has_current
       /\ DOMAIN ss2.history # {}
       /\ \E first \in DOMAIN ss2.history :
            LET ss3 == [ss2 EXCEPT !.has_current = TRUE,
                                   !.current_session_id = first]
            IN  /\ SetState(c, ss3)
                /\ SetPc(c, "main")
                /\ lastOp' = Op(c, "run", Render(ss3), info)
       /\ UNCHANGED <<chat_history, nextId>>
    \/ /\ ~ss2.has_current
       /\ DOMAIN ss2.history = {}
       /\ nextId <= LastId
       /\ LET nid == nextId
              nd == NewDoc(DefaultTitle, nid)
              ss3 == [ss2 EXCEPT !.history = Put(ss2.history, nid, nd),
                                 !.has_current = TRUE,
                                 !.current_session_id = nid]
              sv == save_session_db(chat_history, nid, nd, u, save)
          IN  /\ SetState(c, ss3)
              /\ nextId' = nextId + 1
              /\ chat_history' = sv.table
              /\ SetPc(c, IF sv.raised THEN "halt" ELSE "main")
              /\ lastOp' = Op(c, "run",
                              IF sv.raised THEN "raised" ELSE Render(ss3),
                              [info EXCEPT !.created = nid,
                                           !.store_raised = sv.raised])

\* one execution of the script with no widget event: lines 219-251 and the page
RunScript(c, so) ==
    /\ pc[c] = "run"
    /\ \E sel \in so, load \in so, save \in so :
        LET ss == session_state[c]
            au == query_params[c]
            auto == ~ss.logged_in /\ au # NoUser
            ss1 == IF auto /\ au \in DOMAIN users
                   THEN [ss EXCEPT !.logged_in = TRUE, !.current_user = au]
                   ELSE ss
        IN
        IF auto /\ sel = "raise"
        THEN /\ SetPc(c, "halt")
             /\ lastOp' = Op(c, "run", "raised",
                             RunInfo(FALSE, FALSE, None, TRUE))
             /\ UNCHANGED <<session_state, chat_history, nextId>>
        ELSE IF ~ss1.logged_in
        THEN /\ SetState(c, ss1)
             /\ SetPc(c, "login")
             /\ lastOp' = Op(c, "run", "login_page",
                             RunInfo(FALSE, FALSE, None, FALSE))
             /\ UNCHANGED <<chat_history, nextId>>
        ELSE StartUp(c, ss1, load, save)
    /\ UNCHANGED <<users, query_params>>
    /\ NoRequest

\* the registration form, lines 235-238
Register(c, so) ==
    /\ pc[c] = "login"
    /\ \E nu \in Usernames, np \in Passwords,
          sel \in so, ins \in so :
        LET r == register_user(nu, np, sel, ins)
        IN  /\ users' = r.table
            /\ lastOp' = Op(c, "register",
                            IF r.raised THEN "raised" ELSE "done",
                            [u |-> nu, p |-> np, ok |-> r.ok])
    /\ UNCHANGED <<chat_history, session_state, query_params, pc, nextId>>
    /\ NoRequest

\* the login form, lines 228-233
Login(c, so) ==
    /\ pc[c] = "login"
    /\ \E u \in Usernames, p \in Passwords, sel \in so :
        LET s == login_user(u, p, sel)
        IN  /\ lastOp' = Op(c, "login", IF s THEN "rerun" ELSE "done",
                            [u |-> u, p |-> p, ok |-> s,
                             store_raised |-> sel = "raise"])
            /\ IF s
               THEN /\ SetState(c, [session_state[c] EXCEPT
                                       !.logged_in = TRUE,
                                       !.current_user = u])
                    /\ query_params' = [query_params EXCEPT ![c] = u]
                    /\ SetPc(c, "run")
               ELSE UNCHANGED <<session_state, query_params, pc>>
    /\ UNCHANGED <<users, chat_history, nextId>>
    /\ NoRequest

\* the logout button, line 256
Logout(c) ==
    /\ pc[c] = "main"
    /\ SetState(c, [session_state[c] EXCEPT !.logged_in = FALSE,
                                            !.has_history = TRUE,
                                            !.history = EmptyMap])
    /\ query_params' = [query_params EXCEPT ![c] = NoUser]
    /\ SetPc(c, "run")
    /\ lastOp' = Op(c, "logout", "rerun", NoInfo)
    /\ UNCHANGED <<users, chat_history, nextId>>
    /\ NoRequest

\* the browser reloads the page: a new st.session_state, the URL kept
Reload(c) ==
    /\ pc[c] \in {"main", "halt"}
    /\ SetState(c, FreshState)
    /\ SetPc(c, "run")
    /\ lastOp' = Op(c, "reload", "rerun", NoInfo)
    /\ UNCHANGED <<users, chat_history, query_params, nextId>>
    /\ NoRequest

-----------------------------------------------------------------------------
(* The sidebar's session handlers *)

\* titles typed into the rename box
RenameTitles == {<<"t1">>}

\* the "new session" button, line 268
NewSession(c, so) ==
    /\ pc[c] = "main"
    /\ nextId <= LastId
    /\ \E save \in so :
        LET ss == session_state[c]
            nid == nextId
            nd == NewDoc(ButtonTitle, nid)
            sv == save_session_db(chat_history, nid, nd, ss.current_user, save)
        IN  /\ SetState(c, [ss EXCEPT !.history = Put(ss.history, nid, nd),
                                      !.has_current = TRUE,
                                      !.current_session_id = nid])
            /\ nextId' = nextId + 1
            /\ chat_history' = sv.table
            /\ SetPc(c, IF sv.raised THEN "main" ELSE "run")
            /\ lastOp' = Op(c, "new", IF sv.raised THEN "raised" ELSE "rerun",
                            Info(nid, sv.raised, FALSE))
    /\ UNCHANGED <<users, query_params>>
    /\ NoRequest

\* a session's button in the list, line 273
SelectSession(c) ==
    /\ pc[c] = "main"
    /\ \E sid \in DOMAIN session_state[c].history :
        /\ SetState(c, [session_state[c] EXCEPT !.current_session_id = sid])
        /\ lastOp' = Op(c, "select", "rerun", Info(sid, FALSE, FALSE))
    /\ SetPc(c, "run")
    /\ UNCHANGED <<users, chat_history, query_params, nextId>>
    /\ NoRequest

\* a session's "x" button, lines 275-278
DeleteSession(c, so) ==
    /\ pc[c] = "main"
    /\ \E sid \in DOMAIN session_state[c].history, out \in so :
        LET ss == session_state[c]
            ss1 == [ss EXCEPT !.history = Del(ss.history, sid)]
            dl == delete_session_db(chat_history, sid, out)
            ss2 == IF ~dl.raised /\ sid = ss1.current_session_id
                   THEN [ss1 EXCEPT !.current_session_id = None]
                   ELSE ss1
        IN  /\ SetState(c, ss2)
            /\ chat_history' = dl.table
            /\ SetPc(c, IF dl.raised THEN "main" ELSE "run")
            /\ lastOp' = Op(c, "delete",
                            IF dl.raised THEN "raised" ELSE "rerun",
                            Info(sid, dl.raised, FALSE))
    /\ UNCHANGED <<users, query_params, nextId>>
    /\ NoRequest

\* the rename box, lines 279-282
Rename(c, so) ==
    /\ pc[c] = "main"
    /\ HasSess(session_state[c])
    /\ \E nt \in RenameTitles, save \in so :
        LET ss == session_state[c]
            sid == ss.current_session_id
            curr == [ss.history[sid] EXCEPT !.title = nt]
            sv == save_session_db(chat_history, sid, curr, ss.current_user, save)
        IN  /\ nt # ss.history[sid].title
            /\ SetState(c, [ss EXCEPT !.history[sid] = curr])
            /\ chat_history' = sv.table
            /\ SetPc(c, IF sv.raised THEN "main" ELSE "run")
            /\ lastOp' = Op(c, "rename",
                            IF sv.raised THEN "raised" ELSE "rerun",
                            Info(sid, sv.raised, FALSE))
    /\ UNCHANGED <<users, query_params, nextId>>
    /\ NoRequest

-----------------------------------------------------------------------------
(* The page's handlers: what they share *)

\* what the user types into a chat box
Prompts == {<<"p1">>}

\* what the form of the script page holds (theme, characters, scene, plot, extra)
FormInputs == {<<"form">>}

\* what extract_text_from_file / transcribe_audio return
Extracted == {<<"m1">>, <<"X_no_GROQ_API_KEY">>, Empty}

\* txt.startswith of the cross mark of line 128
StartsWithCross(txt) == Len(txt) > 0 /\ txt[1] = "X_no_GROQ_API_KEY"

\* SESS["messages"].append(m)
MutAppend_keepWindow(msgs, m) == Tail_n(Append(msgs, m), Window)

AppendMessage(msgs, m) == Append(msgs, m)

\* stream_parser over what call_ai_stream returned: the fragments of a
\* stream; over a str, chunk.choices raises AttributeError on the first
\* character (the error-tagged string is never empty)
stream_parser(strm) ==
    IF strm.is_str
    THEN [raised |-> TRUE, text |-> Empty]
    ELSE [raised |-> FALSE, text |-> strm.text]

RECURSIVE Transcript(_)
\* "\n".join(f"{m['role']}: {m['content']}" for m in messages)
Transcript(msgs) ==
    IF msgs = <<>> THEN Empty
    ELSE <<msgs[1].role, ": ">> \o msgs[1].content
         \o (IF Len(msgs) > 1 THEN <<"\n">> ELSE Empty)
         \o Transcript(Tail(msgs))

\* the log of a session the store held before the application's first run
Hist(n) ==
    [i \in 1..n |-> Msg(IF i % 2 = 1 THEN "user" ELSE "assistant",
                        <<ToString(i)>>)]

LegacyLog == Hist(Window)

\* the bound on a log: MaxMsgs messages beyond what the store held at first
MayAppend(msgs) ==
    IF IsPrefix(LegacyLog, msgs)
    THEN Len(msgs) < Len(LegacyLog) + MaxMsgs
    ELSE Len(msgs) < MaxMsgs

\* the state a handler leaves: SESS written to the tab's history, the table,
\* where the tab stands, and the record of the pass
Leave(c, SESS, table, where, kind, result, store_raised, gen_failed) ==
    LET ss == session_state[c]
        sid == ss.current_session_id
    IN  /\ SetState(c, [ss EXCEPT !.history[sid] = SESS])
        /\ chat_history' = table
        /\ SetPc(c, where)
        /\ lastOp' = Op(c, kind, result, Info(sid, store_raised, gen_failed))

\* the session the page works on, line 285
Sess(c) == session_state[c].history[session_state[c].current_session_id]

\* save_session_db(st.session_state.current_session_id, SESS, CURRENT_USER)
Save(c, table, SESS, out) ==
    save_session_db(table, session_state[c].current_session_id, SESS,
                    session_state[c].current_user, out)

Request(msgs, strm) == ctx_messages' = msgs /\ forwarded' = strm.sent

-----------------------------------------------------------------------------
(* Chat mode, lines 290-306 *)

ChatTurnOn(c, so, room) ==
    /\ pc[c] = "main"
    /\ HasSess(session_state[c])
    /\ room
    /\ \E p \in Prompts, act_p \in Personas, text \in GenTexts,
          gen \in GenOutcomes, save1 \in so, save2 \in so :
        LET S1 == [Sess(c) EXCEPT !.messages =
                      AppendMessage(@, Msg("user", p))]
            sv1 == Save(c, chat_history, S1, save1)
            msgs == <<Msg("system", act_p)>> \o S1.messages
            strm == call_ai_stream(msgs, gen, text)
            ans == stream_parser(strm).text
            S2 == [S1 EXCEPT !.messages =
                      AppendMessage(@, Msg("assistant", ans))]
            sv2 == Save(c, sv1.table, S2, save2)
        IN  IF sv1.raised
            THEN /\ Leave(c, S1, sv1.table, "main", "chat", "raised",
                          TRUE, FALSE)
                 /\ NoRequest
            ELSE IF strm.is_str
            THEN /\ Leave(c, S1, sv1.table, "main", "chat", "done",
                          FALSE, TRUE)
                 /\ Request(msgs, strm)
            ELSE /\ Leave(c, S2, sv2.table, "main", "chat",
                          IF sv2.raised THEN "raised" ELSE "done",
                          sv2.raised, FALSE)
                 /\ Request(msgs, strm)
    /\ UNCHANGED <<users, query_params, nextId>>

ChatTurn(c, so) == ChatTurnOn(c, so, MayAppend(Sess(c).messages))

-----------------------------------------------------------------------------
(* Seminar mode, lines 309-415 *)

\* the upload button, lines 319-337
Upload(c, so) ==
    /\ pc[c] = "main"
    /\ HasSess(session_state[c])
    /\ MayAppend(Sess(c).messages)
    /\ \E txt \in Extracted, text \in GenTexts, gen \in GenOutcomes,
          save \in so :
        IF txt # Empty /\ ~StartsWithCross(txt)
        THEN LET response == call_ai_blocking(gen, text)
                 S1 == [Sess(c) EXCEPT
                          !.extracted_material = txt,
                          !.messages = AppendMessage(
                              AppendMessage(@, Msg("user",
                                  <<"[upload]\n">> \o Slice(txt, 200) \o <<"...">>)),
                              Msg("assistant", response))]
                 sv == Save(c, chat_history, S1, save)
             IN  Leave(c, S1, sv.table, IF sv.raised THEN "main" ELSE "run",
                       "upload", IF sv.raised THEN "raised" ELSE "rerun",
                       sv.raised, gen = "raise")
        ELSE Leave(c, Sess(c), chat_history, "main", "upload", "done",
                   FALSE, FALSE)
    /\ NoRequest
    /\ UNCHANGED <<users, query_params, nextId>>

\* the seminar's chat box, lines 346-361
SeminarTurnOn(c, so, room) ==
    /\ pc[c] = "main"
    /\ HasSess(session_state[c])
    /\ room
    /\ \E user_input \in Prompts, text \in GenTexts, gen \in GenOutcomes,
          save1 \in so, save2 \in so :
        LET formatted_input == <<"[directive]:">> \o user_input \o <<"\n(feedback)">>
            S1 == [Sess(c) EXCEPT !.messages =
                      AppendMessage(@, Msg("user", formatted_input))]
            sv1 == Save(c, chat_history, S1, save1)
            msgs == <<Msg("system", SEMINAR_SYSTEM_PROMPT)>> \o S1.messages
            strm == call_ai_stream(msgs, gen, text)
            ans == stream_parser(strm)
            S2 == [S1 EXCEPT !.messages =
                      AppendMessage(@, Msg("assistant", ans.text))]
            sv2 == Save(c, sv1.table, S2, save2)
        IN  IF sv1.raised
            THEN /\ Leave(c, S1, sv1.table, "main", "seminar", "raised",
                          TRUE, FALSE)
                 /\ NoRequest
            ELSE IF ans.raised
            THEN /\ Leave(c, S1, sv1.table, "main", "seminar", "raised",
                          FALSE, TRUE)
                 /\ Request(msgs, strm)
            ELSE /\ Leave(c, S2, sv2.table, "main", "seminar",
                          IF sv2.raised THEN "raised" ELSE "done",
                          sv2.raised, FALSE)
                 /\ Request(msgs, strm)
    /\ UNCHANGED <<users, query_params, nextId>>

SeminarTurn(c, so) == SeminarTurnOn(c, so, MayAppend(Sess(c).messages))

\* the "end the seminar" button, lines 365-415: the blocking call's summary is
\* dropped; client.chat.completions.create is called with no try
Finalize(c, so) ==
    /\ pc[c] = "main"
    /\ HasSess(session_state[c])
    /\ MayAppend(Sess(c).messages)
    /\ \E text \in GenTexts, gen \in GenOutcomes, save \in so :
        IF Sess(c).messages = <<>>
        THEN Leave(c, Sess(c), chat_history, "main", "finalize", "done",
                   FALSE, FALSE)
        ELSE IF gen = "raise"
        THEN Leave(c, Sess(c), chat_history, "main", "finalize", "raised",
                   FALSE, TRUE)
        ELSE LET final_res == text
                 S1 == [Sess(c) EXCEPT
                          !.extracted_analysis = final_res,
                          !.messages = AppendMessage(@, Msg("assistant",
                              <<"### summary\n">> \o final_res))]
                 sv == Save(c, chat_history, S1, save)
             IN  Leave(c, S1, sv.table, IF sv.raised THEN "main" ELSE "run",
                       "finalize", IF sv.raised THEN "raised" ELSE "rerun",
                       sv.raised, FALSE)
    /\ NoRequest
    /\ UNCHANGED <<users, query_params, nextId>>

-----------------------------------------------------------------------------
(* Article mode, lines 417-428 *)

\* lines 426-428 and their twins 470-472, 481-483: the fragments are joined
\* into ft, and ft is stored into the field and saved once the stream ended
StoreStream(c, field, msgs, strm, save, kind) ==
    LET sp == stream_parser(strm)
        S1 == [Sess(c) EXCEPT ![field] = sp.text]
        sv == Save(c, chat_history, S1, save)
    IN  /\ Request(msgs, strm)
        /\ IF sp.raised
           THEN Leave(c, Sess(c), chat_history, "main", kind, "raised",
                      FALSE, TRUE)
           ELSE Leave(c, S1, sv.table, "main", kind,
                      IF sv.raised THEN "raised" ELSE "done",
                      sv.raised, FALSE)

Article(c, so) ==
    /\ pc[c] = "main"
    /\ HasSess(session_state[c])
    /\ \E text \in GenTexts, gen \in GenOutcomes, save \in so :
        IF Sess(c).messages = <<>>
        THEN /\ Leave(c, Sess(c), chat_history, "main", "article", "done",
                      FALSE, FALSE)
             /\ NoRequest
        ELSE LET ctx == Transcript(Sess(c).messages)
                 msgs == <<Msg("system", <<"editor">>),
                           Msg("user", <<"arrange article:\n">> \o ctx)>>
             IN  StoreStream(c, "article_content", msgs,
                             call_ai_stream(msgs, gen, text), save, "article")
    /\ UNCHANGED <<users, query_params, nextId>>

-----------------------------------------------------------------------------
(* Script mode, lines 430-483 *)

\* ctx_str of lines 452-453
ContextString(SESS) ==
    Transcript(SESS.messages)
    \o (IF SESS.extracted_material # Empty
        THEN <<"\n\n[material]:\n">> \o Slice(SESS.extracted_material, 5000)
        ELSE Empty)

\* the form's button with the outline toggle on, lines 456-459
Outline(c, so) ==
    /\ pc[c] = "main"
    /\ HasSess(session_state[c])
    /\ \E text \in GenTexts, gen \in GenOutcomes, save \in so :
        LET res == call_ai_blocking(gen, text)
            S1 == [Sess(c) EXCEPT !.outline_content = res]
            sv == Save(c, chat_history, S1, save)
        IN  Leave(c, S1, sv.table, IF sv.raised THEN "main" ELSE "run",
                  "outline", IF sv.raised THEN "raised" ELSE "rerun",
                  sv.raised, gen = "raise")
    /\ NoRequest
    /\ UNCHANGED <<users, query_params, nextId>>

\* what a call of call_ai_blocking may return
BlockingResults ==
    {call_ai_blocking(gen, text) : gen \in GenOutcomes, text \in GenTexts}

\* the form's button with the outline toggle off, lines 460-472; with the
\* multi-agent toggle on, a draft d and a critique crit are generated first
\* and the prompt of the streamed call is built from them
Script(c, so) ==
    /\ pc[c] = "main"
    /\ HasSess(session_state[c])
    /\ \E form \in FormInputs, u_ma \in BOOLEAN,
          text \in GenTexts, gen \in GenOutcomes, save \in so :
       \E d \in (IF u_ma THEN BlockingResults ELSE {Empty}),
          crit \in (IF u_ma THEN BlockingResults ELSE {Empty}) :
        LET base_p == <<"background:">> \o ContextString(Sess(c)) \o form
            final_p == IF u_ma
                       THEN <<"draft:\n">> \o d \o <<"\nopinion:\n">> \o crit
                            \o <<"\nrewrite:">>
                       ELSE base_p
            msgs == <<Msg("system", <<"SCRIPT_STYLE_GUIDE">>),
                      Msg("user", final_p)>>
        IN  StoreStream(c, "script_content", msgs,
                        call_ai_stream(msgs, gen, text), save, "script")
    /\ UNCHANGED <<users, query_params, nextId>>

\* "generate the script" under the outline editor, lines 474-483
ScriptFromOutline(c, so) ==
    /\ pc[c] = "main"
    /\ HasSess(session_state[c])
    /\ Sess(c).outline_content # Empty
    /\ \E new_out \in {Sess(c).outline_content, <<"edited">>},
          form \in FormInputs,
          text \in GenTexts, gen \in GenOutcomes, save \in so :
        LET fp == <<"outline:\n">> \o new_out \o <<"\nrequirements:">> \o form
            msgs == <<Msg("system", <<"SCRIPT_STYLE_GUIDE">>),
                      Msg("user", fp)>>
        IN  StoreStream(c, "script_content", msgs,
                        call_ai_stream(msgs, gen, text), save,
                        "script_from_outline")
    /\ UNCHANGED <<users, query_params, nextId>>

-----------------------------------------------------------------------------
(* Initial states *)

\* the artifact fields a stored document of an earlier revision carries
LegacyShapes == {{}, {"article_content", "script_content"}, ArtifactKeys}

\* a document written by an earlier revision of the script
LegacyDoc(shape) ==
    [k \in {"title", "messages", "created_at"} \cup shape |->
        CASE k = "title" -> <<"old">>
          [] k = "messages" -> LegacyLog
          [] k = "created_at" -> 0
          [] k = "article_content" -> <<"old article">>
          [] OTHER -> Empty]

LegacyId == 1

\* what table chat_history may hold when the script first runs
InitialTables ==
    {EmptyMap}
    \cup {Put(EmptyMap, LegacyId, [username |-> "alice", data |-> LegacyDoc(sh)])
            : sh \in LegacyShapes}

Registered(u, p) ==
    Put(EmptyMap, u, [password |-> hash_password(p), personas |-> EmptyMap])

InitTabs ==
    /\ session_state = [c \in Clients |-> FreshState]
    /\ query_params = [c \in Clients |-> NoUser]
    /\ pc = [c \in Clients |-> "run"]
    /\ nextId = LegacyId + 1
    /\ lastOp = Op("-", "init", "done", NoInfo)
    /\ ctx_messages = <<>>
    /\ forwarded = <<>>

Init ==
    /\ users = Registered("alice", "secret1")
    /\ chat_history \in InitialTables
    /\ InitTabs

-----------------------------------------------------------------------------------------------------------------------------------------------------
(* Spec: one tab, from the login page on; sessions are created, selected,  *)
(* renamed and deleted; every store call may raise                         *)

Next ==
    \E c \in {"tab1"} :
        \/ RunScript(c, StoreOutcomes)
        \/ Login(c, StoreOutcomes)
        \/ Logout(c)
        \/ Reload(c)
        \/ NewSession(c, StoreOutcomes)
        \/ SelectSession(c)
        \/ DeleteSession(c, StoreOutcomes)
        \/ Rename(c, StoreOutcomes)

Spec == Init /\ [][Next]_vars

-----------------------------------------------------------------------------
(* SpecPage: one tab on the page of one session, with every handler of the *)
(* page; the generation backend may fail, the store is reliable            *)

\* a tab that has logged in as u and run lines 243-251 against the table
LoadedState(u) ==
    LET h == BackfillAll(load_user_data(u, "ok"))
    IN  [logged_in |-> TRUE, current_user |-> u,
         has_history |-> TRUE, history |-> h,
         has_current |-> TRUE,
         current_session_id |-> CHOOSE sid \in DOMAIN h : TRUE]

\* the table holds one session: one of an earlier revision, or a new one
PageTables ==
    (InitialTables \ {EmptyMap})
    \cup {Upsert(EmptyMap, LegacyId + 1, NewDoc(DefaultTitle, LegacyId + 1),
                 "alice")}

InitPage ==
    /\ users = Registered("alice", "secret1")
    /\ chat_history \in PageTables
    /\ session_state = [c \in Clients |->
                          IF c = "tab1" THEN LoadedState("alice") ELSE FreshState]
    /\ query_params = [c \in Clients |-> IF c = "tab1" THEN "alice" ELSE NoUser]
    /\ pc = [c \in Clients |-> IF c = "tab1" THEN "main" ELSE "run"]
    /\ nextId = LegacyId + 2
    /\ lastOp = Op("-", "init", "done", NoInfo)
    /\ ctx_messages = <<>>
    /\ forwarded = <<>>

NextPage ==
    \E c \in {"tab1"} :
        \/ RunScript(c, Reliable)
        \/ Rename(c, Reliable)
        \/ ChatTurn(c, Reliable)
        \/ Upload(c, Reliable)
        \/ SeminarTurn(c, Reliable)
        \/ Finalize(c, Reliable)
        \/ Article(c, Reliable)
        \/ Outline(c, Reliable)
        \/ Script(c, Reliable)
        \/ ScriptFromOutline(c, Reliable)

SpecPage == InitPage /\ [][NextPage]_vars

-----------------------------------------------------------------------------
(* SpecContext: one conversational turn (chat or seminar) on a session     *)
(* whose log holds 0..MaxHist messages                                     *)

InitContext ==
    /\ users = Registered("alice", "secret1")
    /\ \E n \in 0..MaxHist :
         chat_history =
            Upsert(EmptyMap, LegacyId,
                   [NewDoc(<<"old">>, 0) EXCEPT !.messages = Hist(n)], "alice")
    /\ session_state = [c \in Clients |->
                          IF c = "tab1" THEN LoadedState("alice") ELSE FreshState]
    /\ query_params = [c \in Clients |-> IF c = "tab1" THEN "alice" ELSE NoUser]
    /\ pc = [c \in Clients |-> IF c = "tab1" THEN "main" ELSE "run"]
    /\ nextId = LegacyId + 1
    /\ lastOp = Op("-", "init", "done", NoInfo)
    /\ ctx_messages = <<>>
    /\ forwarded = <<>>

NextContext ==
    \E c \in {"tab1"} :
        \/ ChatTurnOn(c, Reliable, lastOp.kind = "init")
        \/ SeminarTurnOn(c, Reliable, lastOp.kind = "init")

SpecContext == InitContext /\ [][NextContext]_vars

-----------------------------------------------------------------------------------------------------------------------------------------------------
(* SpecAuth: registration, login and logout, from an empty users table     *)

InitAuth ==
    /\ users = EmptyMap
    /\ chat_history = EmptyMap
    /\ InitTabs

NextAuth ==
    \E c \in {"tab1"} :
        \/ RunScript(c, StoreOutcomes)
        \/ Register(c, StoreOutcomes)
        \/ Login(c, StoreOutcomes)
        \/ Logout(c)
        \/ Reload(c)

SpecAuth == InitAuth /\ [][NextAuth]_vars

-----------------------------------------------------------------------------
(* SpecTabs: two tabs of one user, each holding its own copy of the same   *)
(* session, chat and rename; the store is reliable, so what a tab holds is *)
(* what its last upsert wrote                                              *)

TabsTables ==
    {Upsert(EmptyMap, LegacyId, Backfill(LegacyDoc(ArtifactKeys)), "alice"),
     Upsert(EmptyMap, LegacyId + 1, NewDoc(DefaultTitle, LegacyId + 1), "alice")}

InitTabsLoaded ==
    /\ users = Registered("alice", "secret1")
    /\ chat_history \in TabsTables
    /\ session_state = [c \in Clients |-> LoadedState("alice")]
    /\ query_params = [c \in Clients |-> "alice"]
    /\ pc = [c \in Clients |-> "main"]
    /\ nextId = LegacyId + 2
    /\ lastOp = Op("-", "init", "done", NoInfo)
    /\ ctx_messages = <<>>
    /\ forwarded = <<>>

NextTabs ==
    \E c \in Clients :
        \/ RunScript(c, Reliable)
        \/ Reload(c)
        \/ Rename(c, Reliable)
        \/ ChatTurn(c, Reliable)

SpecTabs == InitTabsLoaded /\ [][NextTabs]_vars

-----------------------------------------------------------------------------
(* Multi-agent script generation, lines 460-472, call by call: the draft   *)
(* (464), the critique (465), the rewrite prompt (466), the streamed       *)
(* rewrite (469-471) and the assignment and save after the loop (472)      *)

\* texts the backend may produce for one stage, as the fragments of a stream
StageTexts == {<<"g1">>, <<"g2", "g3">>}

\* sub occurs in s
Contains(sub, s) ==
    \E i \in 1..(Len(s) - Len(sub) + 1) : SubSeq(s, i, i + Len(sub) - 1) = sub

\* final_p of line 461
BasePrompt(SESS, form) == <<"background:">> \o ContextString(SESS) \o form

\* the f-string of line 465, the draft after a heading
CritiquePrompt(d) == <<"criticise:\n">> \o d

\* final_p of line 466: the draft and the critique, each after a heading
MutRewritePrompt_noCritique(d, crit) ==
    <<"draft:\n">> \o d \o <<"\nopinion:\n">> \o <<"\nrewrite:">>

RewritePrompt(d, crit) ==
    <<"draft:\n">> \o d \o <<"\nopinion:\n">> \o crit \o <<"\nrewrite:">>

\* one generation call of the pass: its stage, the prompt it was given and
\* what it returned (for the streamed call, the text the stream carries)
Call(stage, prompt, out) == [stage |-> stage, prompt |-> prompt, out |-> out]

\* where a multi-agent pass stands: the calls made so far, the fragments the
\* stream has yet to yield, and ft
MaInfo(sid, calls, rest, ft, store_raised, gen_failed) ==
    [sid |-> sid, calls |-> calls, rest |-> rest, ft |-> ft,
     store_raised |-> store_raised, gen_failed |-> gen_failed]

\* line 464: d = call_ai_blocking(final_p, SCRIPT_STYLE_GUIDE, SETTINGS)
MultiAgentDraft(c) ==
    /\ pc[c] = "main"
    /\ HasSess(session_state[c])
    /\ \E form \in FormInputs, gen \in GenOutcomes, text \in StageTexts :
        LET final_p == BasePrompt(Sess(c), form)
            d == call_ai_blocking(gen, text)
        IN  lastOp' = Op(c, "script_ma", "running",
                         MaInfo(session_state[c].current_session_id,
                                <<Call("draft", final_p, d)>>,
                                <<>>, Empty, FALSE, gen = "raise"))
    /\ SetPc(c, "ma_critique")
    /\ NoRequest
    /\ UNCHANGED <<users, chat_history, session_state, query_params, nextId>>

\* line 465: c = call_ai_blocking(<critique prompt>, ...)
MultiAgentCritique(c) ==
    /\ pc[c] = "ma_critique"
    /\ \E gen \in GenOutcomes, text \in StageTexts :
        LET d == lastOp.info.calls[1].out
            crit == call_ai_blocking(gen, text)
        IN  lastOp' = [lastOp EXCEPT
                         !.info.calls = Append(@, Call("critique",
                                                       CritiquePrompt(d), crit)),
                         !.info.gen_failed = @ \/ gen = "raise"]
    /\ SetPc(c, "ma_rewrite")
    /\ NoRequest
    /\ UNCHANGED <<users, chat_history, session_state, query_params, nextId>>

\* lines 466-470: the rewrite prompt, call_ai_stream, ft = ""; over a str
\* the loop of line 471 raises at once
MultiAgentRewrite(c) ==
    /\ pc[c] = "ma_rewrite"
    /\ \E gen \in GenOutcomes, text \in StageTexts :
        LET d == lastOp.info.calls[1].out
            crit == lastOp.info.calls[2].out
            final_p == RewritePrompt(d, crit)
            msgs == <<Msg("system", <<"SCRIPT_STYLE_GUIDE">>),
                      Msg("user", final_p)>>
            strm == call_ai_stream(msgs, gen, text)
            sp == stream_parser(strm)
        IN  /\ Request(msgs, strm)
            /\ lastOp' = [lastOp EXCEPT
                            !.result = IF sp.raised THEN "raised" ELSE "running",
                            !.info.calls = Append(@, Call("rewrite", final_p,
                                                          sp.text)),
                            !.info.rest = sp.text,
                            !.info.gen_failed = @ \/ sp.raised]
            /\ SetPc(c, IF sp.raised THEN "main" ELSE "ma_stream")
    /\ UNCHANGED <<users, chat_history, session_state, query_params, nextId>>

\* line 471, one iteration: ft+=c; the stream may break off instead
StreamFragment(c) ==
    /\ pc[c] = "ma_stream"
    /\ lastOp.info.rest # <<>>
    /\ \E gen \in GenOutcomes :
        IF gen = "ok"
        THEN /\ lastOp' = [lastOp EXCEPT
                             !.info.ft = @ \o <<Head(lastOp.info.rest)>>,
                             !.info.rest = Tail(@)]
             /\ UNCHANGED pc
        ELSE /\ lastOp' = [lastOp EXCEPT !.result = "raised",
                                         !.info.gen_failed = TRUE]
             /\ SetPc(c, "main")
    /\ UNCHANGED <<users, chat_history, session_state, query_params, nextId,
                   ctx_messages, forwarded>>

\* line 472, after the loop: SESS["script_content"]=ft; save_session_db(...)
StreamEnd(c, so) ==
    /\ pc[c] = "ma_stream"
    /\ lastOp.info.rest = <<>>
    /\ \E save \in so :
        LET ss == session_state[c]
            sid == ss.current_session_id
            S1 == [Sess(c) EXCEPT !.script_content = lastOp.info.ft]
            sv == Save(c, chat_history, S1, save)
        IN  /\ SetState(c, [ss EXCEPT !.history[sid] = S1])
            /\ chat_history' = sv.table
            /\ lastOp' = [lastOp EXCEPT
                            !.result = IF sv.raised THEN "raised" ELSE "done",
                            !.info.store_raised = sv.raised]
    /\ SetPc(c, "main")
    /\ UNCHANGED <<users, query_params, nextId, ctx_messages, forwarded>>

\* SpecMultiAgent: one tab on the script page with the multi-agent toggle
\* on; the backend may fail at every call and the store at the save
NextMultiAgent ==
    \E c \in {"tab1"} :
        \/ MultiAgentDraft(c)
        \/ MultiAgentCritique(c)
        \/ MultiAgentRewrite(c)
        \/ StreamFragment(c)
        \/ StreamEnd(c, StoreOutcomes)

SpecMultiAgent == InitPage /\ [][NextMultiAgent]_vars

-----------------------------------------------------------------------------
(* SpecDelete: two tabs of one user, both loaded from a table of two       *)
(* sessions, so that a tab may list a session the other has deleted; the   *)
(* store answers every call                                                *)

DeleteTable ==
    Upsert(Upsert(EmptyMap, LegacyId, Backfill(LegacyDoc(ArtifactKeys)),
                  "alice"),
           LegacyId + 1, NewDoc(DefaultTitle, LegacyId + 1), "alice")

InitDelete ==
    /\ users = Registered("alice", "secret1")
    /\ chat_history = DeleteTable
    /\ \E cur \in [Clients -> DOMAIN DeleteTable] :
         session_state = [c \in Clients |->
            [LoadedState("alice") EXCEPT !.current_session_id = cur[c]]]
    /\ query_params = [c \in Clients |-> "alice"]
    /\ pc = [c \in Clients |-> "main"]
    /\ nextId = LegacyId + 2
    /\ lastOp = Op("-", "init", "done", NoInfo)
    /\ ctx_messages = <<>>
    /\ forwarded = <<>>

NextDelete ==
    \E c \in Clients :
        \/ RunScript(c, Reliable)
        \/ Reload(c)
        \/ NewSession(c, Reliable)
        \/ SelectSession(c)
        \/ DeleteSession(c, Reliable)

SpecDelete == InitDelete /\ [][NextDelete]_vars

-----
(* Claims *)

\* the session a pass worked on, as the tab that ran it holds it now
OpSess == session_state[lastOp.client].history[lastOp.info.sid]

TurnKinds == {"chat", "seminar"}

\* a conversational turn sent a request during the last pass
TurnSent == lastOp.kind \in TurnKinds /\ ctx_messages # <<>>

\* C1: in a conversational turn call_ai_stream is given [system message] +
\* history, where history is the session's log up to and including the user's
\* new message; for a history of n messages the list it forwards to the
\* backend has min(n, 20) + 1 elements, the first is the system message, and
\* the others are the last min(n, 20) messages of the history, in order.
C1_ContextAssembly ==
    TurnSent =>
        LET hist == Tail(ctx_messages)
            n == Len(hist)
            k == Min(n, 20)
        IN  /\ ctx_messages[1].role = "system"
            /\ IsPrefix(hist, OpSess.messages)
            /\ Len(OpSess.messages) - n <= 1
            /\ Len(forwarded) = k + 1
            /\ forwarded[1] = ctx_messages[1]
            /\ \A i \in 1..k : forwarded[1 + i] = hist[n - k + i]

\* C1 witness: Scenario B, a history of 25 messages gives 1 system message and
\* the last 20 of the 25
C1_Witness ==
    /\ TurnSent
    /\ Len(ctx_messages) = 26
    /\ Len(forwarded) = 21
    /\ forwarded[1].role = "system"
    /\ forwarded[2] = ctx_messages[7]
    /\ forwarded[21] = ctx_messages[26]

\* the artifact field a generation handler stores into
RegenField(kind) ==
    CASE kind = "article" -> "article_content"
      [] kind = "outline" -> "outline_content"
      [] kind = "script" -> "script_content"
      [] kind = "script_from_outline" -> "script_content"
      [] kind = "finalize" -> "extracted_analysis"

RegenKinds == {"article", "outline", "script", "script_from_outline", "finalize"}

\* C2: when a regeneration of an artifact field (article_content,
\* outline_content, script_content, extracted_analysis) is triggered while the
\* field holds content and the generation call whose output would be stored
\* fails, the field holds the same content after the action.
C2_FailedRegenerationKeepsArtifact ==
    [][ (lastOp'.kind \in RegenKinds /\ lastOp'.info.gen_failed) =>
          LET c == lastOp'.client
              sid == lastOp'.info.sid
              f == RegenField(lastOp'.kind)
          IN  session_state[c].history[sid][f] # Empty =>
                session_state'[c].history[sid][f] =
                    session_state[c].history[sid][f] ]_vars

\* the handlers of Spec that call save_session_db
SavingKinds == {"run", "new", "rename"}

\* C3: when the store raises during save_session_db, no error reaches the
\* handler that called it: its pass does not end with an exception.
C3_SaveFailsSilently ==
    (lastOp.kind \in SavingKinds /\ lastOp.info.store_raised) =>
        lastOp.result # "raised"

\* C4: when the store fails under load_user_data, the start-up pass goes on
\* with an empty mapping, creates one default session with an empty log,
\* makes it the only entry of the history and the current session, and the
\* pass does not abort.
C4_OutageAtStartUp ==
    (lastOp.kind = "run" /\ lastOp.info.load_failed) =>
        LET ss == session_state[lastOp.client]
            nid == ss.current_session_id
        IN  /\ nid # None
            /\ nid = lastOp.info.created
            /\ DOMAIN ss.history = {nid}
            /\ ss.history[nid].messages = <<>>
            /\ ss.history[nid].title = DefaultTitle
            /\ lastOp.result # "raised"

\* C5: after a delete action has ended, with or without a store failure, the
\* session is absent from the tab's history and from the store, or present in
\* both.
C5_DeleteAtomic ==
    lastOp.kind = "delete" =>
        (lastOp.info.sid \in DOMAIN session_state[lastOp.client].history
            <=> lastOp.info.sid \in DOMAIN chat_history)

\* C6: for a registered user u and any password p typed into the login form,
\* the empty string included, a login the store answers succeeds exactly when
\* the SHA-256 hash of p is the hash stored for u.
C6_LoginIffHashMatches ==
    (/\ lastOp.kind = "login"
     /\ lastOp.info.u \in DOMAIN users
     /\ ~lastOp.info.store_raised) =>
        (lastOp.info.ok <=>
            hash_password(lastOp.info.p) = users[lastOp.info.u].password)

\* C7: the log of a session a tab holds is append-only: over every step the
\* log before it is a prefix of the log after it, also when the turn's
\* request was cut to the last 20 messages.
C7_LogAppendOnly ==
    [][ \A c \in Clients :
          \A sid \in DOMAIN session_state[c].history
                     \cap DOMAIN session_state'[c].history :
             IsPrefix(session_state[c].history[sid].messages,
                      session_state'[c].history[sid].messages) ]_vars

\* C7 witness: a chat turn on a session whose log is longer than 20: the
\* request was cut, and the log holds the old messages and the two new ones
C7_Witness ==
    /\ TurnSent
    /\ lastOp.result = "done"
    /\ Len(forwarded) < Len(ctx_messages)
    /\ IsPrefix(LegacyLog, OpSess.messages)
    /\ Len(OpSess.messages) = Len(LegacyLog) + 2

\* C8: a failure of the generation backend in a conversational turn, in chat
\* mode and in seminar mode, does not raise: the pass runs to its end, the
\* user's message is the last of the log and no assistant message follows it.
C8_TurnFailureIsInline ==
    (lastOp.kind \in TurnKinds /\ lastOp.info.gen_failed) =>
        /\ lastOp.result # "raised"
        /\ OpSess.messages # <<>>
        /\ OpSess.messages[Len(OpSess.messages)].role = "user"

\* C9: once a tab has loaded its history, every document in it holds all five
\* of article_content, script_content, outline_content, extracted_material
\* and extracted_analysis; right after the load, a field the stored document
\* lacks is the empty string and a field it has is as stored.
C9_BackfilledFields ==
    \A c \in Clients :
        session_state[c].has_history =>
            \A sid \in DOMAIN session_state[c].history :
                LET doc == session_state[c].history[sid]
                IN  /\ ArtifactKeys \subseteq DOMAIN doc
                    /\ (/\ lastOp.kind = "run"
                        /\ lastOp.client = c
                        /\ lastOp.info.load_ran
                        /\ sid \in DOMAIN chat_history
                        /\ sid # lastOp.info.created) =>
                          \A k \in ArtifactKeys :
                            doc[k] = IF k \in DOMAIN chat_history[sid].data
                                     THEN chat_history[sid].data[k]
                                     ELSE Empty

\* C9 witness: a document stored without outline_content and
\* extracted_analysis has been loaded
C9_Witness ==
    /\ lastOp.kind = "run"
    /\ lastOp.info.load_ran
    /\ LegacyId \in DOMAIN session_state["tab1"].history
    /\ LegacyId \in DOMAIN chat_history
    /\ "outline_content" \notin DOMAIN chat_history[LegacyId].data
    /\ "article_content" \in DOMAIN chat_history[LegacyId].data
    /\ session_state["tab1"].history[LegacyId].outline_content = Empty
    /\ session_state["tab1"].history[LegacyId].article_content # Empty

\* the handlers of SpecTabs that end with an upsert of the whole document
WritingKinds == {"chat", "rename"}

\* the last pass ended with its upsert applied
WriteApplied == lastOp.kind \in WritingKinds /\ lastOp.result # "raised"

\* C10: when two tabs hold copies of the same session and both save it, the
\* stored document is, after each upsert, the whole document of the tab whose
\* upsert was applied last: nothing of the other tab's copy is merged in, so
\* messages only the earlier writer had appended are not in the store.
C10_LastWriterWins ==
    WriteApplied =>
        /\ lastOp.info.sid \in DOMAIN chat_history
        /\ chat_history[lastOp.info.sid].data = OpSess
        /\ chat_history[lastOp.info.sid].username
              = session_state[lastOp.client].current_user

\* C10 witness: tab1 saved a log with messages of its own, then tab2 saved
\* its copy without them: the store holds tab2's document, and it is shorter
\* than the log tab1 wrote
C10_Witness ==
    /\ WriteApplied
    /\ lastOp.client = "tab2"
    /\ lastOp.info.sid \in DOMAIN session_state["tab1"].history
    /\ chat_history[lastOp.info.sid].data = OpSess
    /\ Len(session_state["tab1"].history[lastOp.info.sid].messages)
          > Len(chat_history[lastOp.info.sid].data.messages)
    /\ ~IsPrefix(session_state["tab1"].history[lastOp.info.sid].messages,
                 chat_history[lastOp.info.sid].data.messages)

-----------------------------------------------------------------------------
(* C11 *)

\* the calls of the multi-agent pass now running or last run
MaCalls == lastOp.info.calls

StageOrder == <<"draft", "critique", "rewrite">>

\* the calls made so far are the first stages of draft, critique, rewrite,
\* the critique was asked about the draft, the rewrite about both
C11_CallsChained ==
    lastOp.kind = "script_ma" =>
        /\ Len(MaCalls) \in 1..3
        /\ \A i \in 1..Len(MaCalls) : MaCalls[i].stage = StageOrder[i]
        /\ Len(MaCalls) >= 2 => Contains(MaCalls[1].out, MaCalls[2].prompt)
        /\ Len(MaCalls) >= 3 =>
              /\ Contains(MaCalls[1].out, MaCalls[3].prompt)
              /\ Contains(MaCalls[2].out, MaCalls[3].prompt)
              /\ ctx_messages[2].content = MaCalls[3].prompt

\* script_content of the session, as the tab holds it
ScriptContentOf(ss) ==
    ss["tab1"].history[ss["tab1"].current_session_id].script_content

\* a step stores into script_content only as the last step of the pass,
\* when the stream has ended, and stores the rewrite call's whole output
C11_StoredIsRewrite ==
    ScriptContentOf(session_state') # ScriptContentOf(session_state) =>
        /\ lastOp.kind = "script_ma" /\ lastOp.result = "running"
        /\ Len(MaCalls) = 3 /\ lastOp.info.rest = <<>>
        /\ lastOp'.result \in {"done", "raised"}
        /\ lastOp'.info.store_raised = (lastOp'.result = "raised")
        /\ ScriptContentOf(session_state') = MaCalls[3].out

\* C11: multi-agent script generation makes its generation calls in the
\* order draft, critique, rewrite; the critique prompt contains the draft,
\* the rewrite prompt contains the draft and the critique; script_content
\* is assigned only once per pass, after the rewrite stream has ended, and
\* the value assigned is the output of the rewrite call
C11_MultiAgentStoresRewrite ==
    [](C11_CallsChained) /\ [][C11_StoredIsRewrite]_vars

\* a pass ran to its end with three different outputs and stored the third
C11_Witness ==
    /\ lastOp.kind = "script_ma" /\ lastOp.result = "done"
    /\ Len(MaCalls) = 3
    /\ MaCalls[1].out = ErrorText
    /\ MaCalls[2].out = <<"g1">>
    /\ MaCalls[3].out = <<"g2", "g3">>
    /\ ScriptContentOf(session_state) = <<"g2", "g3">>

-----------------------------------------------------------------------------
(* C12 *)

\* the table after delete_session_db(sid) while the store answers
Deleted(table, sid) == delete_session_db(table, sid, "ok")

\* two successive calls for one id leave what the first call left, and
\* neither raises
C12_TwiceIsOnce ==
    \A sid \in 1..LastId :
        LET once == Deleted(chat_history, sid)
            twice == Deleted(once.table, sid)
        IN  /\ ~once.raised /\ ~twice.raised
            /\ twice.table = once.table
            /\ sid \notin DOMAIN once.table

\* the x button: the id is absent afterwards, every other record is as it
\* was, and on an id the store no longer holds the table stays as it is and
\* the pass ends in st.rerun(), not in an exception
C12_DeleteStep ==
    lastOp'.kind = "delete" =>
        LET sid == lastOp'.info.sid
        IN  /\ DOMAIN chat_history' = DOMAIN chat_history \ {sid}
            /\ \A i \in DOMAIN chat_history' :
                  chat_history'[i] = chat_history[i]
            /\ sid \notin DOMAIN chat_history =>
                  /\ chat_history' = chat_history
                  /\ lastOp'.result = "rerun"
                  /\ ~lastOp'.info.store_raised

\* C12: delete is idempotent: deleting an id the store does not (or no
\* longer) hold, as the second of two delete_session_db calls or from a tab
\* with a stale listing, leaves the store as the first delete left it (the
\* id absent, every other record unchanged) and reports no error
C12_DeleteIdempotent ==
    [](C12_TwiceIsOnce) /\ [][C12_DeleteStep]_vars

\* tab2 has deleted from its stale listing a session tab1 had deleted: the
\* other session is still stored and the pass ended in st.rerun()
C12_Witness ==
    /\ lastOp.kind = "delete" /\ lastOp.client = "tab2"
    /\ lastOp.result = "rerun"
    /\ lastOp.info.sid \notin DOMAIN session_state["tab1"].history
    /\ lastOp.info.sid \notin DOMAIN chat_history
    /\ DOMAIN chat_history = DOMAIN DeleteTable \ {lastOp.info.sid}
    /\ pc["tab1"] = "run"

-----------------------------------------------------------------------------
(* C13 *)

\* a pass of a logged-in tab got to line 279, where the pointer is read
ReachedLookup ==
    /\ lastOp.kind = "run"
    /\ lastOp.result \in {"stopped", "rendered", "raised"}
    /\ ~lastOp.info.store_raised
    /\ session_state[lastOp.client].logged_in

\* C13: whenever a user is logged in and the script reaches the point where
\* the current session is read, current_session_id is None or a key of the
\* in-memory history; it never refers to a session missing from the mapping
C13_PointerInHistory ==
    ReachedLookup =>
        LET ss == session_state[lastOp.client]
        IN  \/ ss.current_session_id = None
            \/ ss.current_session_id \in DOMAIN ss.history

=============================================================================
